---------------------------- MODULE Spec2Model ----------------------------
(***************************************************************************)
(* Model of the loyalty-API reporters of src/promotion_agent.py:           *)
(*   - the paginated listing fetchers (reward groups, promotions, rewards) *)
(*   - the listing/detail merge (reward groups, promotions)                *)
(*   - the enrichment loops of the seven runs                              *)
(*   - the reference tables and their cache fields                         *)
(*   - the rule interpretation and the report's summary and sections       *)
(*   - the report tools that upload the written report                     *)
(* Each part has its own specification (FetchSpec, MergeSpec, RunSpec,     *)
(* DetailRunSpec, ReportSpec, CacheSpec, InterpSpec, ToolSpec) over the    *)
(* same variables; the variables a part does not use stay idle.            *)
(***************************************************************************)
EXTENDS Integers, Sequences, FiniteSets, TLC

VARIABLES
    reporter,   \* which reporter class this run instantiates
    up,         \* the upstream API's behaviour for this run (listing endpoints)
    rgf,        \* RewardGroupsReporterFixed.fetch_all_reward_groups: locals and result
    pf,         \* PromotionsReporterFinal.fetch_all_promotions: locals and result
    rwf,        \* RewardsReporter.fetch_all_rewards: locals and result
    listing_data,   \* merge_*_data: the listing record passed in
    detail_data,    \* merge_*_data: the detail record passed in
    heap,           \* the statistics mappings the records refer to, by address
    heap0,          \* the statistics mappings as they were when merge was called
    merged,         \* merge_*_data: the record returned
    mpc,            \* which merge has returned ("none" before the call)
    listing_result, \* generate_*_report: the listing as the listing fetch returned it
    details_fail,   \* the ids whose detail request the upstream fails
    run,            \* generate_*_report: the locals of the run
    ref_up,         \* the upstream API's behaviour for the reference endpoints
    cache,          \* the reporter's cache fields (rule_definitions, tier_rules_cache, ...)
    ref_requests,   \* how many requests each reference endpoint has received
    lookups,        \* how many reference lookups the run has made
    report,         \* generate_*_report: the report as assembled and written
    groups,         \* generate_detailed_sections: the enriched collection passed in
    interp,         \* interpret_operator / interpret_rule / sections: argument and result
    tools           \* the report tools: the local file, the uploaded objects, the answer

fetchVars == <<reporter, up, rgf, pf, rwf>>

mergeVars == <<listing_data, detail_data, heap, heap0, merged, mpc>>

runVars == <<listing_result, details_fail, run>>

cacheVars == <<ref_up, cache, ref_requests, lookups>>

reportVars == <<report>>

interpVars == <<groups, interp>>

toolVars == <<tools>>

vars == <<fetchVars, mergeVars, runVars, cacheVars, reportVars, interpVars, toolVars>>

\* what the fetchers, the merges and the enrichment loops leave alone
outsideFetch == <<mergeVars, runVars, cacheVars, reportVars, interpVars, toolVars>>

outsideMerge == <<fetchVars, runVars, cacheVars, reportVars, interpVars, toolVars>>

outsideRun == <<fetchVars, mergeVars, cacheVars, reportVars, interpVars, toolVars>>

outsideCache == <<fetchVars, mergeVars, runVars, reportVars, toolVars>>

---------------------------------------------------------------------------
(* Bounds of the model and constants of the program *)

\* per_page as passed by the caller (the code's defaults are 100 and 50)
PerPage == 2

\* max_pages of fetch_all_reward_groups
max_pages == 20

\* the unbudgeted loops (promotions, rewards) are followed up to this page
PageCap == 22

\* ids repeat with a period of 1..MaxIdMod records, or never
MaxIdMod == 3

\* longest data list of the unpaginated fallback response
MaxFb == 3

NoRepeat == (PageCap + 2) * PerPage + MaxFb + 1

IdMods == (1..MaxIdMod) \cup {NoRepeat}

---------------------------------------------------------------------------
(* The upstream API *)

\* The record at overall position j of the listing: its id, and its position
\* as the payload that tells two records of the same id apart. The upstream
\* lists the ids in ascending or in descending order.
Rec(j) ==
    LET r == ((j - 1) % up.idmod) + 1
    IN  [id |-> IF up.order = "asc" THEN r ELSE up.idmod + 1 - r, pos |-> j]

RecordsUpTo(n) == [j \in 1..n |-> Rec(j)]

PageData(p, size) == [k \in 1..size |-> Rec((p - 1) * PerPage + k)]

\* make_api_call on a transport failure: the empty mapping
FailResponse == [ok |-> FALSE, data |-> <<>>, hasTotal |-> FALSE, totalPages |-> 0]

\* meta.pagination.totalPages as the upstream reports it on page p
MetaTotal(p) ==
    CASE up.total = "absent" -> [hasTotal |-> FALSE, totalPages |-> 0]
      [] up.total = "exact"  -> [hasTotal |-> TRUE, totalPages |-> up.n]
      [] OTHER               -> [hasTotal |-> TRUE, totalPages |-> p + 1]

OkResponse(p, data) ==
    [ok |-> TRUE, data |-> data,
     hasTotal |-> MetaTotal(p).hasTotal, totalPages |-> MetaTotal(p).totalPages]

\* make_api_call for "<listing>?page=p&perPage=PerPage": pages before up.n are
\* full, page up.n fails or is short (up.short records), later pages are empty.
make_api_call_page(p) ==
    IF p < up.n THEN OkResponse(p, PageData(p, PerPage))
    ELSE IF p = up.n
         THEN IF up.last = "fail" THEN FailResponse
              ELSE OkResponse(p, PageData(p, up.short))
         ELSE OkResponse(p, <<>>)

\* make_api_call for the unpaginated "groups/reward"
make_api_call_unpaginated ==
    IF up.fbOk THEN OkResponse(1, RecordsUpTo(up.fbLen)) ELSE FailResponse

---------------------------------------------------------------------------
(* fetch_all_reward_groups *)

RECURSIVE DedupFrom(_, _, _, _)
DedupFrom(all, k, unique_groups, seen_ids) ==
    IF k > Len(all) THEN unique_groups
    ELSE IF all[k].id \notin seen_ids
         THEN DedupFrom(all, k + 1, Append(unique_groups, all[k]), seen_ids \cup {all[k].id})
         ELSE DedupFrom(all, k + 1, unique_groups, seen_ids)

\* lines 108-115: remove duplicates based on id
DedupById(all) == DedupFrom(all, 1, <<>>, {})

\* line 70: the fallback is tried for the first page only
FallbackOnPageAny(page) == TRUE

FallbackOnPage(page) == page = 1

\* line 103: the warning's condition
BudgetReachedAt(page) == page >= max_pages

BudgetExceeded(page) == page > max_pages

\* line 59: the loop's condition
LoopContinues(page) == page <= max_pages

\* lines 103-121: after the loop
RGFinish(s, exit) ==
    [s EXCEPT !.pc = "done", !.exit = exit,
              !.warned = BudgetExceeded(s.page),
              !.result = DedupById(s.all_groups)]

\* lines 66-77: the response was empty
RGOnFailure(s) ==
    IF FallbackOnPage(s.page)
    THEN LET t == [s EXCEPT !.fallbacks = @ + 1]
             response == make_api_call_unpaginated
         IN  IF response.ok
             THEN [t EXCEPT !.pc = "done", !.exit = "fallback", !.result = response.data]
             ELSE RGFinish(t, "failed")
    ELSE RGFinish(s, "failed")

\* lines 59-101: one pass of the loop, and what follows when the loop ends
RGIteration(s0) ==
    LET s == [s0 EXCEPT !.requests = Append(@, s0.page)]
        response == make_api_call_page(s0.page)
        groups_data == response.data
    IN  IF ~response.ok THEN RGOnFailure(s)
        ELSE IF Len(groups_data) = 0 THEN RGFinish(s, "empty")
        ELSE LET t == [s EXCEPT !.all_groups = @ \o groups_data]
             IN  IF Len(groups_data) < PerPage THEN RGFinish(t, "short")
                 ELSE LET u == [t EXCEPT !.page = @ + 1]
                      IN  IF LoopContinues(u.page) THEN u ELSE RGFinish(u, "budget")

RGInit ==
    [pc |-> "loop", page |-> 1, all_groups |-> <<>>, requests |-> <<>>,
     fallbacks |-> 0, warned |-> FALSE, exit |-> "none", result |-> <<>>]

RGFetchPage ==
    /\ reporter = "reward_groups"
    /\ rgf.pc = "loop"
    /\ rgf.page <= PageCap
    /\ rgf' = RGIteration(rgf)
    /\ UNCHANGED <<reporter, up, pf, rwf, outsideFetch>>

---------------------------------------------------------------------------
(* fetch_all_promotions *)

PFInit ==
    [pc |-> "loop", page |-> 1, all_promotions |-> <<>>, requests |-> <<>>,
     exit |-> "none", result |-> <<>>]

\* lines 1430-1431: after the loop
PFFinish(s, exit) ==
    [s EXCEPT !.pc = "done", !.exit = exit, !.result = s.all_promotions]

\* lines 1410-1428: one pass of the loop
PFIteration(s0) ==
    LET s == [s0 EXCEPT !.requests = Append(@, s0.page)]
        response == make_api_call_page(s0.page)
        promotions_data == response.data
    IN  IF Len(promotions_data) = 0 THEN PFFinish(s, "empty")
        ELSE LET t == [s EXCEPT !.all_promotions = @ \o promotions_data]
             IN  IF Len(promotions_data) < PerPage THEN PFFinish(t, "short")
                 ELSE [t EXCEPT !.page = @ + 1]

PFFetchPage ==
    /\ reporter = "promotions"
    /\ pf.pc = "loop"
    /\ pf.page <= PageCap
    /\ pf' = PFIteration(pf)
    /\ UNCHANGED <<reporter, up, rgf, rwf, outsideFetch>>

---------------------------------------------------------------------------
(* fetch_all_rewards *)

RWInit ==
    [pc |-> "loop", page |-> 1, all_rewards |-> <<>>, requests |-> <<>>,
     exit |-> "none", result |-> <<>>]

\* lines 980-981: after the loop
RWFinish(s, exit) ==
    [s EXCEPT !.pc = "done", !.exit = exit, !.result = s.all_rewards]

\* line 974: pagination.get("totalPages", 1)
TotalPagesOf(response) == IF response.hasTotal THEN response.totalPages ELSE 1

\* lines 961-978: one pass of the loop
RWIteration(s0) ==
    LET s == [s0 EXCEPT !.requests = Append(@, s0.page)]
        response == make_api_call_page(s0.page)
        rewards_data == response.data
    IN  IF Len(rewards_data) = 0 THEN RWFinish(s, "empty")
        ELSE LET t == [s EXCEPT !.all_rewards = @ \o rewards_data]
             IN  IF t.page >= TotalPagesOf(response) THEN RWFinish(t, "totalPages")
                 ELSE [t EXCEPT !.page = @ + 1]

RWFetchPage ==
    /\ reporter = "rewards"
    /\ rwf.pc = "loop"
    /\ rwf.page <= PageCap
    /\ rwf' = RWIteration(rwf)
    /\ UNCHANGED <<reporter, up, rgf, pf, outsideFetch>>

---------------------------------------------------------------------------
(* Records as the merge sees them: a mapping from field name to a value, where *)
(* a field the dict does not hold is Absent, None is Null, and a statistics    *)
(* sub-mapping is the address of a dict object in the heap.                    *)

Absent == "ABSENT"

Null == "NULL"

ListingStats == "@listing.statistics"

DetailStats == "@detail.statistics"

Addresses == {ListingStats, DetailStats}

Keys == {"type", "promotionType", "statistics"}

StatKeys == {"a", "b"}

ScalarValues == {"x", "y"}

EmptyStats == [k \in StatKeys |-> Absent]

IsRef(v) == v \in Addresses

NonNull(v) == v # Absent /\ v # Null

\* Python's truth value of a dict object: it holds a key
TruthyDict(m) == \E k \in StatKeys : m[k] # Absent

\* dict.update: every key other holds replaces or adds the key in m
DictUpdate(m, other) == [k \in StatKeys |-> IF other[k] # Absent THEN other[k] ELSE m[k]]

\* the mapping a statistics field stands for (nothing for an absent or null field)
Deref(v, h) == IF IsRef(v) THEN h[v] ELSE EmptyStats

\* a record with no field
NoRecord == [k \in Keys |-> Absent]

---------------------------------------------------------------------------
(* merge_reward_group_data / merge_promotion_data *)

\* a merge that lets detail overwrite listing
MergedValueDetailWins(key, lv, dv, h) == IF dv = Absent THEN lv ELSE dv

\* lines 134-145 (1444-1455): the value of merged[key], given listing's lv and detail's dv
MergedValue(key, lv, dv, h) ==
    IF dv = Absent THEN lv
    ELSE IF lv = Absent \/ lv = Null THEN dv
    ELSE IF key = "statistics" /\ dv # Null
         THEN IF TruthyDict(Deref(lv, h)) THEN lv ELSE dv
         ELSE lv

\* line 143 (1453): merged["statistics"] is the listing's own dict object, updated in place
HeapAfterMerge(listing, detail, h) ==
    LET lv == listing["statistics"]
        dv == detail["statistics"]
    IN  IF IsRef(lv) /\ IsRef(dv) /\ TruthyDict(h[lv])
        THEN [h EXCEPT ![lv] = DictUpdate(h[lv], h[dv])]
        ELSE h

\* lines 129-147
merge_reward_group_data(listing, detail, h) ==
    [k \in Keys |-> MergedValue(k, listing[k], detail[k], h)]

\* lines 1439-1461
merge_promotion_data(listing, detail, h) ==
    LET m == [k \in Keys |-> MergedValue(k, listing[k], detail[k], h)]
    IN  IF listing["type"] # Absent
        THEN [m EXCEPT !["promotionType"] = listing["type"]]
        ELSE m

MergeRewardGroup ==
    /\ mpc = "none"
    /\ merged' = merge_reward_group_data(listing_data, detail_data, heap)
    /\ heap' = HeapAfterMerge(listing_data, detail_data, heap)
    /\ mpc' = "reward_groups"
    /\ UNCHANGED <<listing_data, detail_data, heap0, outsideMerge>>

MergePromotion ==
    /\ mpc = "none"
    /\ merged' = merge_promotion_data(listing_data, detail_data, heap)
    /\ heap' = HeapAfterMerge(listing_data, detail_data, heap)
    /\ mpc' = "promotions"
    /\ UNCHANGED <<listing_data, detail_data, heap0, outsideMerge>>

---------------------------------------------------------------------------
(* The enrichment loops of generate_reward_group_report and                 *)
(* generate_promotion_report. An entity is its id (0 stands for an id that   *)
(* is missing, None or 0: `if group_id` treats them alike), its position in  *)
(* the listing, and its other fields.                                        *)

\* longest listing the run is given
MaxListing == 3

\* largest entity id
MaxId == 2

Entity(id, pos, type) ==
    [id |-> id, pos |-> pos, fields |-> [k \in Keys |-> IF k = "type" THEN type ELSE Absent]]

\* the fields of the detail record the upstream holds for an entity
DetailFields == [k \in Keys |-> IF k = "statistics" THEN Absent ELSE "y"]

\* fetch_reward_group_details / fetch_promotion_details: response.get("data", {})
fetch_details(id) ==
    IF id \in details_fail THEN [empty |-> TRUE, fields |-> NoRecord]
    ELSE [empty |-> FALSE, fields |-> DetailFields]

\* a loop that asks for the detail of every record
RGHasKeyAlways(e) == TRUE

\* line 489: if group_id
RGHasKey(e) == e.id # 0

\* line 1920: if promo_type and promo_id
PromoHasKey(e) == NonNull(e.fields["type"]) /\ e.id # 0

\* a loop that drops the entity whose detail fetch failed
RGOnDetailFailureDrop(s, e) == [s EXCEPT !.failed_fetches = @ + 1]

\* lines 497-501: the detail fetch returned nothing
RGOnDetailFailure(s, e) ==
    [s EXCEPT !.with_details = Append(@, e), !.failed_fetches = @ + 1]

\* lines 491-496: the detail fetch returned a record
RGOnDetail(s, e, detail) ==
    [s EXCEPT !.with_details =
                  Append(@, [e EXCEPT !.fields = merge_reward_group_data(e.fields, detail, heap)]),
              !.successful_fetches = @ + 1]

\* when the last listing record has been processed the loop is left
Advance(s) ==
    [s EXCEPT !.i = @ + 1,
              !.pc = IF s.i + 1 > Len(s.listing) THEN "enriched" ELSE "loop"]

\* lines 484-506: one pass of the loop
RGLoopBody(s) ==
    LET e == s.listing[s.i]
    IN  IF RGHasKey(e)
        THEN LET t == [s EXCEPT !.detail_requests = Append(@, e.id)]
                 detail_data_ == fetch_details(e.id)
             IN  IF ~detail_data_.empty
                 THEN Advance(RGOnDetail(t, e, detail_data_.fields))
                 ELSE Advance(RGOnDetailFailure(t, e))
        ELSE Advance([s EXCEPT !.skipped_groups = @ + 1])

\* lines 1927-1931: the detail fetch returned nothing; the listing record itself
\* gets the promotionType field and is appended
PromoOnDetailFailure(s, k) ==
    LET e == [s.listing[k] EXCEPT !.fields["promotionType"] = s.listing[k].fields["type"]]
    IN  [s EXCEPT !.listing[k] = e,
                  !.with_details = Append(@, e),
                  !.failed_fetches = @ + 1]

\* lines 1922-1926: the detail fetch returned a record
PromoOnDetail(s, e, detail) ==
    [s EXCEPT !.with_details =
                  Append(@, [e EXCEPT !.fields = merge_promotion_data(e.fields, detail, heap)]),
              !.successful_fetches = @ + 1]

\* lines 1916-1933: one pass of the loop
PromoLoopBody(s) ==
    LET e == s.listing[s.i]
    IN  IF PromoHasKey(e)
        THEN LET t == [s EXCEPT !.detail_requests = Append(@, e.id)]
                 detail_data_ == fetch_details(e.id)
             IN  IF ~detail_data_.empty
                 THEN Advance(PromoOnDetail(t, e, detail_data_.fields))
                 ELSE Advance(PromoOnDetailFailure(t, s.i))
        ELSE Advance(s)

RunLocals(pc, listing) ==
    [pc |-> pc, i |-> 1, listing |-> listing, with_details |-> <<>>,
     successful_fetches |-> 0, failed_fetches |-> 0, skipped_groups |-> 0,
     detail_requests |-> <<>>]

\* a run that goes on with an empty listing
RunStartWithoutEarlyReturn ==
    /\ run.pc = "fetched"
    /\ run' = [run EXCEPT !.pc = IF Len(run.listing) = 0 THEN "enriched" ELSE "loop"]
    /\ UNCHANGED <<listing_result, details_fail, outsideRun>>

\* lines 470-482 (1904-1914): the listing fetch has returned
RunStart ==
    /\ run.pc = "fetched"
    /\ run' = [run EXCEPT !.pc = IF Len(run.listing) = 0 THEN "returned_empty" ELSE "loop"]
    /\ UNCHANGED <<listing_result, details_fail, outsideRun>>

RGEnrichOne ==
    /\ reporter = "reward_groups"
    /\ run.pc = "loop"
    /\ run' = RGLoopBody(run)
    /\ UNCHANGED <<listing_result, details_fail, outsideRun>>

PromoEnrichOne ==
    /\ reporter = "promotions"
    /\ run.pc = "loop"
    /\ run' = PromoLoopBody(run)
    /\ UNCHANGED <<listing_result, details_fail, outsideRun>>

\* group.get("statistics", {}) when the listing record has no statistics
EmptyDict == "{}"

\* lines 865-868 (tiers) and 1311-1314 (rewards): the detail record alone is
\* appended; nothing of the listing record is kept
DetailOnlyOnDetail(s, e, detail) ==
    [s EXCEPT !.with_details = Append(@, [e EXCEPT !.fields = detail]),
              !.successful_fetches = @ + 1]

\* lines 2289-2293: the listing record is appended next to its rules
AudienceOnDetail(s, e, detail) ==
    [s EXCEPT !.with_details = Append(@, e),
              !.successful_fetches = @ + 1]

\* lines 2623-2626 (products) and 2948-2951 (locations): the detail record is
\* appended with the statistics of the listing record
ProductOnDetail(s, e, detail) ==
    LET stats == IF e.fields["statistics"] = Absent THEN EmptyDict
                 ELSE e.fields["statistics"]
    IN  [s EXCEPT !.with_details =
                      Append(@, [e EXCEPT !.fields = [detail EXCEPT !["statistics"] = stats]]),
                  !.successful_fetches = @ + 1]

\* lines 863-868: one pass of the loop of generate_tier_report (lines 1309-1314:
\* of generate_reward_report); there is no else branch, so a record whose detail fetch returned nothing is left out
TierLoopBody(s) ==
    LET e == s.listing[s.i]
        t == [s EXCEPT !.detail_requests = Append(@, e.id)]
        tier_set_details == fetch_details(e.id)
    IN  IF ~tier_set_details.empty
        THEN Advance(DetailOnlyOnDetail(t, e, tier_set_details.fields))
        ELSE Advance(t)

\* lines 2285-2293: one pass of the loop of generate_audience_report
AudienceLoopBody(s) ==
    LET e == s.listing[s.i]
        t == [s EXCEPT !.detail_requests = Append(@, e.id)]
        group_rules == fetch_details(e.id)
    IN  IF ~group_rules.empty
        THEN Advance(AudienceOnDetail(t, e, group_rules.fields))
        ELSE Advance(t)

\* fetch_product_group_details / fetch_location_group_details (lines 2382-2386,
\* 2711-2715): response.get("data", {}), the detail record the upstream holds
fetch_group_details(id) ==
    IF id \in details_fail THEN [empty |-> TRUE, fields |-> NoRecord]
    ELSE [empty |-> FALSE, fields |-> detail_data]

\* lines 2619-2626: one pass of the loop of generate_product_report (lines
\* 2944-2951: of generate_location_report)
ProductLoopBody(s) ==
    LET e == s.listing[s.i]
        t == [s EXCEPT !.detail_requests = Append(@, e.id)]
        group_details == fetch_group_details(e.id)
    IN  IF ~group_details.empty
        THEN Advance(ProductOnDetail(t, e, group_details.fields))
        ELSE Advance(t)

TierEnrichOne ==
    /\ reporter = "tiers"
    /\ run.pc = "loop"
    /\ run' = TierLoopBody(run)
    /\ UNCHANGED <<listing_result, details_fail, outsideRun>>

RewardEnrichOne ==
    /\ reporter = "rewards"
    /\ run.pc = "loop"
    /\ run' = TierLoopBody(run)
    /\ UNCHANGED <<listing_result, details_fail, outsideRun>>

AudienceEnrichOne ==
    /\ reporter = "audience_groups"
    /\ run.pc = "loop"
    /\ run' = AudienceLoopBody(run)
    /\ UNCHANGED <<listing_result, details_fail, outsideRun>>

ProductEnrichOne ==
    /\ reporter = "product_groups"
    /\ run.pc = "loop"
    /\ run' = ProductLoopBody(run)
    /\ UNCHANGED <<listing_result, details_fail, outsideRun>>

LocationEnrichOne ==
    /\ reporter = "location_groups"
    /\ run.pc = "loop"
    /\ run' = ProductLoopBody(run)
    /\ UNCHANGED <<listing_result, details_fail, outsideRun>>

---------------------------------------------------------------------------
(* The reference tables and the reporter's cache fields. A cache field is   *)
(* None until the first fetch_* call stores the upstream's response in it;  *)
(* make_api_call answers {} when the request fails.                         *)

Tables == {"rule_definitions", "tier_rules", "clubs", "transaction_types"}

\* the cache fields each reporter's __init__ sets to None
CachesOf(r) ==
    CASE r = "tiers"      -> {"tier_rules", "clubs"}
      [] r = "rewards"    -> {"clubs"}
      [] r = "promotions" -> {"transaction_types", "clubs"}
      [] r \in {"reward_groups", "audience_groups", "product_groups", "location_groups"}
                          -> {"rule_definitions"}
      [] OTHER            -> {}

Component(id, type, label) == [id |-> id, type |-> type, label |-> label]

\* the data list of groups/ruleDefinitions
RuleDefinitionsData ==
    << [id |-> 1, name |-> "Purchase",
        components |-> << Component(1, "dropdown", "Store"),
                          Component(2, "dateRange", "Period"),
                          Component(3, "text", "Amount") >>],
       [id |-> 2, name |-> "Enrolled", components |-> <<>>] >>

\* the data list of tierRules, clubs and transactionTypes
NamedData ==
    << [id |-> 1, name |-> "One", components |-> <<>>],
       [id |-> 2, name |-> "Two", components |-> <<>>] >>

TableData(t) == IF t = "rule_definitions" THEN RuleDefinitionsData ELSE NamedData

EmptyResponse == [ok |-> FALSE, data |-> <<>>]

\* self.<cache> = None
None == [set |-> FALSE, value |-> EmptyResponse]

\* what requests.get and raise_for_status raise (lines 45-46) for each way a
\* request fails: a timeout, a refused or broken connection, a non-2xx status,
\* any other failure of the request
ExceptionOf(outcome) ==
    CASE outcome = "timeout"          -> "Timeout"
      [] outcome = "connection_error" -> "ConnectionError"
      [] outcome = "http_error"       -> "HTTPError"
      [] OTHER                        -> "RequestException"

\* an except clause that lets the status errors pass
CaughtUnlessHTTPError(exception) == exception # "HTTPError"

\* line 48: except requests.exceptions.RequestException, the base class of
\* Timeout, ConnectionError and HTTPError
Caught(exception) ==
    exception \in {"RequestException", "Timeout", "ConnectionError", "HTTPError"}

\* make_api_call leaves with an exception
make_api_call_raises(t) == ref_up[t] # "ok" /\ ~Caught(ExceptionOf(ref_up[t]))

\* make_api_call for a reference endpoint: the response, or {} on a failure
make_api_call_reference(t) ==
    IF ref_up[t] = "ok" THEN [ok |-> TRUE, data |-> TableData(t)] ELSE EmptyResponse

\* a cache that asks again whenever what it holds is empty
CacheMissWhenFalsy(c) == ~c.set \/ ~c.value.ok

\* a fetch_* that asks the upstream on every call
CacheMissAlways(c) == TRUE

\* `if self.<cache> is None`
CacheMiss(c) == ~c.set

\* fetch_rule_definitions / fetch_tier_rules / fetch_clubs / fetch_transaction_types:
\* the cache fields after the call
CacheAfterFetch(t) ==
    IF CacheMiss(cache[t]) /\ ~make_api_call_raises(t)
    THEN [cache EXCEPT ![t] = [set |-> TRUE, value |-> make_api_call_reference(t)]]
    ELSE cache

\* the requests the upstream has received after the call
RequestsAfterFetch(t) ==
    IF CacheMiss(cache[t]) THEN [ref_requests EXCEPT ![t] = @ + 1] ELSE ref_requests

\* get_rule_definition / get_tier_rule_by_id / get_club_by_id /
\* get_transaction_type_by_id: the first record of data with that id, or None
GetById(data, id) ==
    LET hits == {k \in 1..Len(data) : data[k].id = id}
    IN  IF hits = {} THEN [found |-> FALSE, def |-> [id |-> 0, name |-> "", components |-> <<>>]]
        ELSE [found |-> TRUE, def |-> data[CHOOSE k \in hits : \A j \in hits : k <= j]]

\* most calls of fetch_* and get_*_by_id followed in one run
MaxLookups == 3

\* largest id looked up
MaxRefId == 3

\* an explicit fetch_* call of the run (lines 515, 872-873, 1318, 1940-1941)
FetchReference ==
    \E t \in CachesOf(reporter) :
        /\ Len(lookups) < MaxLookups
        /\ cache' = CacheAfterFetch(t)
        /\ ref_requests' = RequestsAfterFetch(t)
        /\ lookups' = Append(lookups, [table |-> t, id |-> 0, found |-> FALSE,
                                       raised |-> CacheMiss(cache[t]) /\ make_api_call_raises(t),
                                       rendered |-> FALSE, lines |-> <<>>])
        /\ UNCHANGED <<ref_up, interpVars, outsideCache>>

\* the reference tables the detailed sections of a reporter resolve ids in
RenderedTables(r) == CachesOf(r) \cap {"clubs", "transaction_types"}

\* a get_rule_definition or get_tier_rule_by_id call of an interpretation
\* (lines 251, 682, 2118, 2456, 2785): it fetches through the cache, then
\* searches the data
LookupReference ==
    \E t \in CachesOf(reporter) \ RenderedTables(reporter), id \in 1..MaxRefId :
        /\ Len(lookups) < MaxLookups
        /\ cache' = CacheAfterFetch(t)
        /\ ref_requests' = RequestsAfterFetch(t)
        /\ lookups' = Append(lookups, [table |-> t, id |-> id,
                                       found |-> GetById(cache'[t].value.data, id).found,
                                       raised |-> CacheMiss(cache[t]) /\ make_api_call_raises(t),
                                       rendered |-> FALSE, lines |-> <<>>])
        /\ UNCHANGED <<ref_up, interpVars, outsideCache>>

\* a label that does not tell which id was referenced
FallbackLabelWithoutId(r, t, id) ==
    IF t = "clubs" THEN <<"- Unknown club">> ELSE <<"- Unknown transaction type">>

\* lines 768, 1074 (under the "- " of 1202), 1699 and 1733: the line of a
\* reference whose id the table does not hold
FallbackLabel(r, t, id) ==
    CASE r = "tiers"              -> <<"- Club ", ToString(id)>>
      [] r = "rewards"            -> <<"- ", "Club ", ToString(id)>>
      [] t = "transaction_types"  -> <<"- Transaction Type ID: ", ToString(id)>>
      [] OTHER                    -> <<"- Club ID: ", ToString(id)>>

\* lines 761-768 (tiers), 1065-1074 (rewards), 1692-1699 and 1725-1733
\* (promotions): the lines one reference adds to the section
render_reference(r, t, id, data) ==
    LET club == GetById(data, id)
    IN  IF r = "rewards" /\ id = 0 THEN <<>>
        ELSE IF club.found
             THEN << <<"- ", club.def.name, " (ID: ", ToString(id), ")">> >>
             ELSE << FallbackLabel(r, t, id) >>

\* the ids of the references rendered: none (0), one the table holds, one
\* it does not hold
RenderedIds == {0, 1, MaxRefId}

\* the detailed section renders one club or transaction-type reference
\* (get_club_by_id at 764, 1069, 1729, get_transaction_type_by_id at 1694)
RenderReference ==
    \E t \in RenderedTables(reporter), id \in RenderedIds :
        /\ Len(lookups) < MaxLookups
        /\ cache' = CacheAfterFetch(t)
        /\ ref_requests' = RequestsAfterFetch(t)
        /\ lookups' = Append(lookups, [table |-> t, id |-> id,
                                       found |-> GetById(cache'[t].value.data, id).found,
                                       raised |-> CacheMiss(cache[t]) /\ make_api_call_raises(t),
                                       rendered |-> TRUE,
                                       lines |-> render_reference(reporter, t, id,
                                                                  cache'[t].value.data)])
        /\ UNCHANGED <<ref_up, interpVars, outsideCache>>

---------------------------------------------------------------------------
(* Sorting by id *)

\* sorted(...) is stable: a record goes after the records whose key is not larger
InsertById(sorted, e) ==
    LET k == Cardinality({j \in 1..Len(sorted) : sorted[j].id <= e.id})
    IN  SubSeq(sorted, 1, k) \o <<e>> \o SubSeq(sorted, k + 1, Len(sorted))

RECURSIVE SortedById(_)
\* sorted(groups_with_details, key=lambda x: int(x.get("id", 0)))
SortedById(records) ==
    IF records = <<>> THEN <<>>
    ELSE InsertById(SortedById(SubSeq(records, 1, Len(records) - 1)), records[Len(records)])

---------------------------------------------------------------------------
(* The rule interpretation. A text is the sequence of the pieces an f-string *)
(* or a join puts together; a call returns its text or raises.               *)

Returns(text) == [raised |-> FALSE, text |-> text]

Raises(exception) == [raised |-> TRUE, text |-> <<exception>>]

\* a join that puts the last text first
JoinReversed(texts, sep) ==
    IF Len(texts) = 0 THEN <<>>
    ELSE LET n == Len(texts)
             rest[k \in 1..n] ==
                 IF k = 1 THEN texts[1] ELSE texts[k] \o sep \o rest[k - 1]
         IN  rest[n]

\* sep.join(texts)
Join(texts, sep) ==
    IF Len(texts) = 0 THEN <<>>
    ELSE LET n == Len(texts)
             upto[k \in 1..n] ==
                 IF k = 1 THEN texts[1] ELSE upto[k - 1] \o sep \o texts[k]
         IN  upto[n]

\* str.upper() on the values the logic flag takes
Upper(s) == CASE s = "any" -> "ANY" [] s = "all" -> "ALL" [] OTHER -> s

\* format_date (lines 2064-2072): an ISO date is written out, any other
\* string comes back as it is
format_date(date_str) ==
    CASE date_str = Absent        -> "Not specified"
      [] date_str = "2024-01-05"  -> "January 05, 2024"
      [] date_str = "2024-12-31"  -> "December 31, 2024"
      [] OTHER                    -> date_str

\* operator_map of RewardGroupsReporterFixed.interpret_operator (lines 184-195)
RGOperatorMap ==
    [op \in {"isEqual", "isNotEqual", "isGreaterThan", "isLessThan",
             "isGreaterThanOrEqualTo", "isLessThanOrEqualTo", "isBetween",
             "isNotBetween", "contains", "doesNotContain"} |->
        CASE op = "isEqual"                -> "equals"
          [] op = "isNotEqual"             -> "does not equal"
          [] op = "isGreaterThan"          -> "is greater than"
          [] op = "isLessThan"             -> "is less than"
          [] op = "isGreaterThanOrEqualTo" -> "is greater than or equal to"
          [] op = "isLessThanOrEqualTo"    -> "is less than or equal to"
          [] op = "isBetween"              -> "is between"
          [] op = "isNotBetween"           -> "is not between"
          [] op = "contains"               -> "contains"
          [] OTHER                         -> "does not contain"]

\* operator_map of the audience, product and location reporters (lines
\* 2086-2104, 2432-2450, 2761-2779)
GroupOperatorMap ==
    [op \in {"isEqual", "isNotEqual", "isGreaterThan", "isLessThan",
             "isGreaterThanOrEqualTo", "isLessThanOrEqualTo", "isBetween",
             "customDates", "entireProgram", "currentDay", "previousDay",
             "currentWeek", "previousWeek", "currentMonth", "previousMonth",
             "currentYear", "previousYear"} |->
        CASE op = "isEqual"                -> "equals"
          [] op = "isNotEqual"             -> "does not equal"
          [] op = "isGreaterThan"          -> "is greater than"
          [] op = "isLessThan"             -> "is less than"
          [] op = "isGreaterThanOrEqualTo" -> "is greater than or equal to"
          [] op = "isLessThanOrEqualTo"    -> "is less than or equal to"
          [] op = "isBetween"              -> "is between"
          [] op = "customDates"            -> "custom date range"
          [] op = "entireProgram"          -> "entire program period"
          [] op = "currentDay"             -> "current day"
          [] op = "previousDay"            -> "previous day"
          [] op = "currentWeek"            -> "current week"
          [] op = "previousWeek"           -> "previous week"
          [] op = "currentMonth"           -> "current month"
          [] op = "previousMonth"          -> "previous month"
          [] op = "currentYear"            -> "current year"
          [] OTHER                         -> "previous year"]

operator_map(r) == IF r = "reward_groups" THEN RGOperatorMap ELSE GroupOperatorMap

\* a lookup that answers a fixed word for a code the table does not hold
OperatorDefaultUnknown(operator) == "unknown"

\* the default of operator_map.get(operator, operator)
OperatorDefault(operator) == operator

\* interpret_operator (lines 182-196, 2084-2105, 2430-2451, 2759-2780)
interpret_operator(r, operator) ==
    IF operator \in DOMAIN operator_map(r) THEN operator_map(r)[operator]
    ELSE OperatorDefault(operator)

\* get_component_definition (lines 164-170): the component of that id, if any
HasComponent(rule_def, comp_id) ==
    \E k \in 1..Len(rule_def.components) : rule_def.components[k].id = comp_id

ComponentLabel(rule_def, comp_id) ==
    LET hits == {k \in 1..Len(rule_def.components) : rule_def.components[k].id = comp_id}
    IN  rule_def.components[CHOOSE k \in hits : \A j \in hits : k <= j].label

\* interpret_rule_value of the reward-groups reporter (lines 198-243). The
\* component's definition is looked up for its name only, and nothing of the
\* text depends on it.
interpret_rule_value(value_item) ==
    LET component_type == value_item.component_type
        operator == value_item.operator
        value1 == value_item.value1
        value2 == value_item.value2
        selected_text == value_item.selectedText
    IN  IF component_type = "dropdown" /\ selected_text # Absent THEN <<selected_text>>
        ELSE IF component_type = "dateRange"
        THEN IF operator = "customDates" /\ value1 # Absent /\ value2 # Absent
             THEN <<"Date Range: ", value1, " to ", value2>>
             ELSE IF operator = "previous365Days" THEN <<"Date Range: Previous 365 Days">>
             ELSE IF operator = "previousMonth" THEN <<"Date Range: Previous Month">>
             ELSE IF value1 # Absent /\ value2 # Absent
             THEN <<"Date Range: ", value1, " to ", value2>>
             ELSE IF value1 # Absent THEN <<"Date Range: from ", value1>>
             ELSE <<"Date Range: not specified">>
        ELSE IF selected_text # Absent THEN <<selected_text>>
        ELSE IF value1 # Absent /\ value2 # Absent THEN <<value1, " to ", value2>>
        ELSE IF value1 # Absent THEN <<value1>>
        ELSE <<"(no value specified)">>

\* condition_value of the audience, product and location reporters (lines
\* 2131-2138, 2469-2476, 2798-2805)
condition_value(value) ==
    IF value.selectedText # Absent THEN <<value.selectedText>>
    ELSE IF value.value1 # Absent /\ value.value2 # Absent
    THEN <<format_date(value.value1), " to ", format_date(value.value2)>>
    ELSE IF value.value1 # Absent THEN <<value.value1>>
    ELSE <<"Not specified">>

\* whether the loop over rule.values renders the value (lines 264-266: every
\* value text is non-empty; lines 2126-2127, 2464-2465: if comp_def)
RendersValue(r, rule_def, value) ==
    IF r = "reward_groups" THEN Len(interpret_rule_value(value)) > 0
    ELSE HasComponent(rule_def, value.component_id)

\* the text one value of the rule contributes
ValueText(r, rule_def, value) ==
    IF r = "reward_groups" THEN interpret_rule_value(value)
    ELSE <<ComponentLabel(rule_def, value.component_id), " ",
           interpret_operator(r, value.operator), " ">> \o condition_value(value)

\* value_texts / conditions: the texts of the rendered values, in the order
\* of rule.values
ValueTexts(r, rule_def, values) ==
    LET rendered == SelectSeq(values, LAMBDA v : RendersValue(r, rule_def, v))
    IN  [k \in 1..Len(rendered) |-> ValueText(r, rule_def, rendered[k])]

\* RewardGroupsReporterFixed.interpret_rule (lines 245-292); the rules of the
\* old structure carry no logic field, so their conditions are joined by the
\* default "and", upper-cased
RGInterpretRule(rule, rule_defs) ==
    IF rule.rd = "null" THEN Raises("AttributeError")
    ELSE IF rule.rd # "id" THEN Returns(<<"Rule definition not found">>)
    ELSE LET found == GetById(rule_defs, rule.rd_id)
             rule_name == found.def.name
             value_texts == ValueTexts("reward_groups", found.def, rule.values)
             condition_texts == [k \in 1..Len(rule.conditions) |->
                                    <<"Condition: ", rule.conditions[k]>>]
         IN  IF ~found.found
             THEN Returns(<<"Rule definition ", ToString(rule.rd_id), " not found">>)
             ELSE IF Len(rule.values) > 0
             THEN IF Len(value_texts) >= 1
                  THEN Returns(<<rule_name, ": ">> \o Join(value_texts, <<" AND ">>))
                  ELSE Returns(<<rule_name, ": ", "(no interpretable values)">>)
             ELSE IF Len(rule.conditions) > 0
             THEN Returns(<<rule_name, ": ">> \o Join(condition_texts, <<" AND ">>))
             ELSE Returns(<<rule_name>>)

\* what follows the lookup in the audience, product and location reporters
\* (lines 2117-2146, 2455-2484, 2784-2813)
GroupInterpretResolved(r, rule, rule_defs) ==
    LET found == GetById(rule_defs, rule.rd_id)
        rule_name == found.def.name
        conditions == ValueTexts(r, found.def, rule.values)
    IN  IF ~found.found
        THEN Returns(<<"Unknown rule type (ID: ", ToString(rule.rd_id), ")">>)
        ELSE IF Len(conditions) > 0
        THEN Returns(<<rule_name, ": ">> \o Join(conditions, <<" AND ">>))
        ELSE Returns(<<rule_name>>)

\* AudienceGroupsReporter.interpret_rule (lines 2107-2148)
AudienceInterpretRule(rule, rule_defs) ==
    IF rule.rd \in {"absent", "null"} THEN Returns(<<"Rule definition not found">>)
    ELSE IF rule.rd = "noid" THEN Returns(<<"Rule definition ID not found">>)
    ELSE GroupInterpretResolved("audience_groups", rule, rule_defs)

\* ProductGroupsReporter.interpret_rule and LocationGroupsReporter.interpret_rule
\* (lines 2453-2484, 2782-2813): rule["ruleDefinition"]["id"]
ProductInterpretRule(r, rule, rule_defs) ==
    IF rule.rd \in {"absent", "noid"} THEN Raises("KeyError")
    ELSE IF rule.rd = "null" THEN Raises("TypeError")
    ELSE GroupInterpretResolved(r, rule, rule_defs)

interpret_rule(r, rule, rule_defs) ==
    CASE r = "reward_groups"   -> RGInterpretRule(rule, rule_defs)
      [] r = "audience_groups" -> AudienceInterpretRule(rule, rule_defs)
      [] OTHER                 -> ProductInterpretRule(r, rule, rule_defs)

\* the word of the section's rule-logic line: lines 393-395 (reward groups:
\* logic, default "any", upper-cased, written when there are several rules),
\* lines 2196-2203 (audience: ruleMatch, default 'any'), lines 2519 and 2848
\* (products, locations: group['ruleMatch'])
RuleLogicText(r, group) ==
    CASE r = "reward_groups" ->
             IF Len(group.rules) > 1
             THEN Returns(<<Upper(IF group.flag = Absent THEN "any" ELSE group.flag)>>)
             ELSE Returns(<<>>)
      [] r = "audience_groups" ->
             IF (IF group.flag = Absent THEN "any" ELSE group.flag) = "any"
             THEN Returns(<<"ANY">>) ELSE Returns(<<"ALL">>)
      [] OTHER ->
             IF group.flag = Absent THEN Raises("KeyError")
             ELSE IF group.flag = "any" THEN Returns(<<"ANY">>) ELSE Returns(<<"ALL">>)

\* one section of generate_detailed_reward_groups (lines 337-416) or
\* generate_detailed_sections (lines 2187-2226, 2514-2556, 2843-2885)
Section(r, group, rule_defs) ==
    LET rule_texts == [k \in 1..Len(group.rules) |-> interpret_rule(r, group.rules[k], rule_defs)]
        logic == RuleLogicText(r, group)
    IN  [raised |-> logic.raised \/ \E k \in 1..Len(rule_texts) : rule_texts[k].raised,
         id |-> group.id,
         rules |-> [k \in 1..Len(rule_texts) |-> rule_texts[k].text],
         logic |-> logic.text]

\* the sections of all groups in the sorted order; an exception raised in a
\* section leaves the generator, and no section is returned
generate_detailed_sections(r, groups_with_details, rule_defs) ==
    LET sorted_groups == SortedById(groups_with_details)
        sections == [k \in 1..Len(sorted_groups) |-> Section(r, sorted_groups[k], rule_defs)]
    IN  IF \E k \in 1..Len(sections) : sections[k].raised
        THEN [raised |-> TRUE, sections |-> <<>>]
        ELSE [raised |-> FALSE, sections |-> sections]

\* largest component id a rule value names (the definitions hold 1..3)
MaxComponentId == 4

\* most values of a rule, rules of a group, groups of a report
MaxValues == 2

MaxRules == 2

MaxGroups == 2

ConditionValue(id, type, operator, selected_text, value1, value2) ==
    [component_id |-> id, component_type |-> type, operator |-> operator,
     selectedText |-> selected_text, value1 |-> value1, value2 |-> value2]

\* a rule of one value: any value
FullConditions ==
    [component_id : 1..MaxComponentId, component_type : {"dropdown", "dateRange", "text"},
     operator : {"isEqual", "customDates", "previousMonth"},
     selectedText : {Absent, "S"}, value1 : {Absent, "10", "2024-01-05"},
     value2 : {Absent, "2024-12-31"}]

\* a rule of several values: values that are told apart by their texts, the
\* last one naming a component the definition does not hold
PlainConditions ==
    { ConditionValue(1, "dropdown", "isEqual", "S", Absent, Absent),
      ConditionValue(3, "text", "isGreaterThan", Absent, "10", Absent),
      ConditionValue(MaxComponentId, "text", "isEqual", "T", Absent, Absent) }

RuleValues ==
    {<<>>} \cup { <<c>> : c \in FullConditions }
           \cup UNION { [1..n -> PlainConditions] : n \in 2..MaxValues }

\* a RuleInstance: rd tells whether ruleDefinition is absent, null, a mapping
\* without (or with a falsy) id, or a mapping with the id rd_id; an absent
\* values list is the empty list (rule.get("values", []))
Rules ==
    { rule \in [rd : {"absent", "null", "noid", "id"}, rd_id : 0..MaxRefId,
               values : RuleValues, conditions : {<<>>, <<"legacy">>}] :
        (rule.rd = "id") <=> (rule.rd_id # 0) }

NoRule == [rd |-> "absent", rd_id |-> 0, values |-> <<>>, conditions |-> <<>>]

OperatorCodes ==
    DOMAIN RGOperatorMap \cup DOMAIN GroupOperatorMap \cup {"previous365Days", "isLike", ""}

SectionRules ==
    { [NoRule EXCEPT !.rd = "id", !.rd_id = 1,
                     !.values = <<ConditionValue(1, "dropdown", "isEqual", "S", Absent, Absent)>>],
      NoRule }

SectionRuleLists == UNION { [1..n -> SectionRules] : n \in 0..MaxRules }

\* an entity as the sections see it: its id, its ruleMatch / logic flag, its rules
Group(id, flag, rules) == [id |-> id, flag |-> flag, rules |-> rules]

\* up to MaxGroups entities: one of them any entity, the others with one
\* resolved rule each
GroupLists ==
    UNION { { [k \in 1..n |-> IF k = p THEN Group(k, flag, rules)
                              ELSE Group(k, "all", <<CHOOSE r \in SectionRules : r.rd = "id">>)] :
                  p \in 1..n, flag \in {Absent, "any", "all"}, rules \in SectionRuleLists } :
            n \in 1..MaxGroups }

NoInterp ==
    [pc |-> "none", operator |-> "", rule |-> NoRule, result |-> Returns(<<>>),
     again |-> Returns(<<>>),
     sections |-> [raised |-> FALSE, sections |-> <<>>]]

\* one call of interpret_operator
InterpretOperator ==
    /\ interp.pc = "none"
    /\ \E operator \in OperatorCodes :
           interp' = [NoInterp EXCEPT !.pc = "operator", !.operator = operator,
                          !.result = Returns(<<interpret_operator(reporter, operator)>>)]
    /\ UNCHANGED <<groups, cacheVars, outsideCache>>

\* whether interpret_rule gets as far as get_rule_definition
LooksUpDefinition(rule) == rule.rd = "id"

\* one call of interpret_rule: the rule definitions are fetched through the
\* cache when the rule names one
InterpretRule ==
    /\ interp.pc = "none"
    /\ \E rule \in Rules :
           /\ cache' = IF LooksUpDefinition(rule) THEN CacheAfterFetch("rule_definitions")
                       ELSE cache
           /\ ref_requests' = IF LooksUpDefinition(rule)
                              THEN RequestsAfterFetch("rule_definitions") ELSE ref_requests
           /\ interp' = [NoInterp EXCEPT !.pc = "rule", !.rule = rule,
                             !.result = interpret_rule(reporter, rule,
                                            cache'["rule_definitions"].value.data)]
    /\ UNCHANGED <<groups, ref_up, lookups, outsideCache>>

\* between two calls the upstream starts or stops answering the
\* rule-definitions request
UpstreamOutcomeChanges ==
    /\ interp.pc = "rule"
    /\ ref_up' = [ref_up EXCEPT !["rule_definitions"] = IF @ = "ok" THEN "fail" ELSE "ok"]
    /\ UNCHANGED <<cache, ref_requests, lookups, interpVars, outsideCache>>

\* a later call of interpret_rule with the same rule, in the same run
InterpretRuleAgain ==
    /\ interp.pc = "rule"
    /\ cache' = IF LooksUpDefinition(interp.rule) THEN CacheAfterFetch("rule_definitions")
                ELSE cache
    /\ ref_requests' = IF LooksUpDefinition(interp.rule)
                       THEN RequestsAfterFetch("rule_definitions") ELSE ref_requests
    /\ interp' = [interp EXCEPT !.pc = "rule_again",
                      !.again = interpret_rule(reporter, interp.rule,
                                    cache'["rule_definitions"].value.data)]
    /\ UNCHANGED <<groups, ref_up, lookups, outsideCache>>

\* the run fetches the rule definitions (lines 515, 2297, 2630, 2955) and
\* generates the detailed sections of the enriched collection
GenerateDetailedSections ==
    /\ interp.pc = "none"
    /\ \E groups_with_details \in GroupLists :
           /\ groups' = groups_with_details
           /\ cache' = CacheAfterFetch("rule_definitions")
           /\ ref_requests' = RequestsAfterFetch("rule_definitions")
           /\ interp' = [NoInterp EXCEPT !.pc = "sections",
                             !.sections = generate_detailed_sections(reporter,
                                 groups_with_details, cache'["rule_definitions"].value.data)]
    /\ UNCHANGED <<ref_up, lookups, outsideCache>>

---------------------------------------------------------------------------
(* The report of the reward-groups run *)

\* a summary that lists the groups as they come
generate_reward_groups_summary_unsorted(groups_with_details) ==
    [j \in 1..Len(groups_with_details) |->
        [id |-> groups_with_details[j].id, pos |-> groups_with_details[j].pos]]

\* lines 294-326: one row per group, in the sorted order
generate_reward_groups_summary(groups_with_details) ==
    LET sorted_groups == SortedById(groups_with_details)
    IN  [j \in 1..Len(sorted_groups) |->
            [id |-> sorted_groups[j].id, pos |-> sorted_groups[j].pos]]

\* the entities of the run carry no rules and no logic flag
EntitiesAsGroups(with_details) ==
    [k \in 1..Len(with_details) |-> Group(with_details[k].id, Absent, <<>>)]

NoReport == [pc |-> "none", summary |-> <<>>, sections |-> <<>>]

\* lines 467-472: the listing fetch of the run has returned
RGListingFetched ==
    /\ reporter = "reward_groups"
    /\ rgf.pc = "done"
    /\ run.pc = "idle"
    /\ listing_result' = [k \in 1..Len(rgf.result) |-> Entity(rgf.result[k].id, k, "x")]
    /\ run' = RunLocals("fetched", listing_result')
    /\ UNCHANGED <<details_fail, outsideRun>>

\* lines 513-547: the rule definitions are fetched, the report is assembled
\* and written
RGWriteReport ==
    /\ reporter = "reward_groups"
    /\ run.pc = "enriched"
    /\ report.pc = "none"
    /\ cache' = CacheAfterFetch("rule_definitions")
    /\ ref_requests' = RequestsAfterFetch("rule_definitions")
    /\ report' = [pc |-> "written",
                  summary |-> generate_reward_groups_summary(run.with_details),
                  sections |-> generate_detailed_sections(reporter,
                                   EntitiesAsGroups(run.with_details),
                                   cache'["rule_definitions"].value.data).sections]
    /\ UNCHANGED <<ref_up, lookups, fetchVars, mergeVars, runVars, interpVars, toolVars>>

---------------------------------------------------------------------------
(* The report of the promotions run *)

\* x.get("promotionType", "")
PromotionTypeOf(e) ==
    IF e.fields["promotionType"] = Absent THEN "" ELSE e.fields["promotionType"]

\* the place of a string in Python's order of strings: "" < "x" < "y"
StrRank(str) == CASE str = "" -> 0 [] str = "x" -> 1 [] str = "y" -> 2 [] OTHER -> 3

\* the order of the tuples (x.get("promotionType", ""), int(x.get("id", 0)))
PromoKeyLeq(a, b) ==
    \/ StrRank(PromotionTypeOf(a)) < StrRank(PromotionTypeOf(b))
    \/ /\ StrRank(PromotionTypeOf(a)) = StrRank(PromotionTypeOf(b))
       /\ a.id <= b.id

InsertByTypeThenId(sorted, e) ==
    LET k == Cardinality({j \in 1..Len(sorted) : PromoKeyLeq(sorted[j], e)})
    IN  SubSeq(sorted, 1, k) \o <<e>> \o SubSeq(sorted, k + 1, Len(sorted))

RECURSIVE SortedByTypeThenId(_)
\* lines 1585 and 1624: sorted(promotions_with_details,
\*     key=lambda x: (x.get("promotionType", ""), int(x.get("id", 0))))
SortedByTypeThenId(records) ==
    IF records = <<>> THEN <<>>
    ELSE InsertByTypeThenId(SortedByTypeThenId(SubSeq(records, 1, Len(records) - 1)),
                            records[Len(records)])

\* lines 1576-1613: one row per promotion, in the sorted order
generate_promotions_summary(promotions_with_details) ==
    LET sorted_promos == SortedByTypeThenId(promotions_with_details)
    IN  [j \in 1..Len(sorted_promos) |->
            [id |-> sorted_promos[j].id, pos |-> sorted_promos[j].pos]]

\* lines 1615-1786: one section per promotion, in the sorted order
generate_detailed_promotions(promotions_with_details) ==
    LET sorted_promos == SortedByTypeThenId(promotions_with_details)
    IN  [j \in 1..Len(sorted_promos) |->
            [id |-> sorted_promos[j].id, pos |-> sorted_promos[j].pos]]

\* lines 1939-1976: the supporting tables are fetched, the report is
\* assembled and written
PromoWriteReport ==
    /\ reporter = "promotions"
    /\ run.pc = "enriched"
    /\ report.pc = "none"
    /\ cache' = [t \in Tables |-> IF t \in {"transaction_types", "clubs"}
                                  THEN CacheAfterFetch(t)[t] ELSE cache[t]]
    /\ ref_requests' = [t \in Tables |-> IF t \in {"transaction_types", "clubs"}
                                         THEN RequestsAfterFetch(t)[t]
                                         ELSE ref_requests[t]]
    /\ report' = [pc |-> "written",
                  summary |-> generate_promotions_summary(run.with_details),
                  sections |-> generate_detailed_promotions(run.with_details)]
    /\ UNCHANGED <<ref_up, lookups, fetchVars, mergeVars, runVars, interpVars, toolVars>>

---------------------------------------------------------------------------
(* The report tools of the agent. The reward-groups tool and the tiers tool  *)
(* both have their reporter write the local file "tier_report.md" (lines     *)
(* 3086 and 3110) and upload that file, each under its own key.              *)

\* most invocations of the tools followed
MaxInvocations == 3

ReportTools == {"reward_groups", "tiers"}

\* no file "tier_report.md" in the working directory
NoFile == [writer |-> "none", written_in |-> 0]

\* no object under a key of the bucket
NoObject == [writer |-> "none", written_in |-> 0, uploaded_in |-> 0]

\* how the reporter's generate_*_report(output) ends: the report is written
\* (lines 543-547, 901-905), "" is returned before anything is written
\* (lines 470-472, 857-859), or an exception leaves it
ReporterOutcomes == {"written", "returned_empty", "raised"}

\* whether upload_file succeeds when the file exists
UploadOutcomes == {"ok", "fail"}

\* the file "tier_report.md" after the reporter of invocation n has run
FileAfterReporter(tool, outcome, n) ==
    IF outcome = "written" THEN [writer |-> tool, written_in |-> n] ELSE tools.local_file

\* lines 3035-3053: upload_to_s3 returns the url when the file exists and the
\* upload succeeds, None (any exception is caught) otherwise
upload_to_s3(file, upload) == file # NoFile /\ upload = "ok"

\* lines 3096-3102: what the tool returns
ToolAnswer(outcome, s3_url) ==
    IF outcome = "raised" THEN "1"
    ELSE IF s3_url THEN "Report generated and uploaded to S3"
    ELSE "Report generated locally"

NoTools ==
    [invocation |-> 0, tool |-> "none", produced |-> FALSE, local_file |-> NoFile,
     s3 |-> [key \in ReportTools |-> NoObject], answer |-> "none"]

\* lines 3088-3102 (3112-3126): the files, the bucket and the answer after
\* one invocation of a tool
InvokeTool(tool, outcome, upload) ==
    LET n == tools.invocation + 1
        file == FileAfterReporter(tool, outcome, n)
        s3_url == outcome # "raised" /\ upload_to_s3(file, upload)
    IN  [invocation |-> n, tool |-> tool,
         produced |-> (outcome = "written"),
         local_file |-> file,
         s3 |-> IF s3_url
                THEN [tools.s3 EXCEPT ![tool] =
                          [writer |-> file.writer, written_in |-> file.written_in,
                           uploaded_in |-> n]]
                ELSE tools.s3,
         answer |-> ToolAnswer(outcome, s3_url)]

\* lines 3082-3102: the tool generate_reward_group_report
tool_generate_reward_group_report ==
    \E outcome \in ReporterOutcomes, upload \in UploadOutcomes :
        /\ tools.invocation < MaxInvocations
        /\ tools' = InvokeTool("reward_groups", outcome, upload)
        /\ UNCHANGED <<fetchVars, mergeVars, runVars, cacheVars, reportVars, interpVars>>

\* lines 3106-3126: the tool generate_tier_report
tool_generate_tier_report ==
    \E outcome \in ReporterOutcomes, upload \in UploadOutcomes :
        /\ tools.invocation < MaxInvocations
        /\ tools' = InvokeTool("tiers", outcome, upload)
        /\ UNCHANGED <<fetchVars, mergeVars, runVars, cacheVars, reportVars, interpVars>>

---------------------------------------------------------------------------
(* The values of the variables a specification does not use *)

ToolsIdle == tools = NoTools


FetchIdle ==
    /\ up = [n |-> 1, last |-> "data", short |-> 0, idmod |-> 1, fbOk |-> FALSE,
             fbLen |-> 0, total |-> "absent", order |-> "asc"]
    /\ rgf = RGInit
    /\ pf = PFInit
    /\ rwf = RWInit

MergeIdle ==
    /\ listing_data = NoRecord
    /\ detail_data = NoRecord
    /\ heap = [a \in Addresses |-> EmptyStats]
    /\ heap0 = heap
    /\ merged = NoRecord
    /\ mpc = "idle"

RunIdle ==
    /\ listing_result = <<>>
    /\ details_fail = {}
    /\ run = RunLocals("idle", <<>>)

CacheIdle ==
    /\ ref_up = [t \in Tables |-> "ok"]
    /\ cache = [t \in Tables |-> None]
    /\ ref_requests = [t \in Tables |-> 0]
    /\ lookups = <<>>

ReportIdle == report = NoReport

InterpIdle ==
    /\ groups = <<>>
    /\ interp = NoInterp

---------------------------------------------------------------------------
(* The fetch specification: one reporter, one upstream, one listing fetch *)

Upstreams ==
    { u \in [n : 1..(PageCap + 1), last : {"fail", "data"}, short : 0..(PerPage - 1),
             idmod : IdMods, fbOk : BOOLEAN, fbLen : 0..MaxFb,
             total : {"absent", "exact", "more"}, order : {"asc", "desc"}] :
        /\ (u.last = "fail" => u.short = 0)
        /\ (~(u.n = 1 /\ u.last = "fail") => (~u.fbOk /\ u.fbLen = 0))
        /\ (~u.fbOk => u.fbLen = 0) }

FetchInit ==
    /\ reporter \in {"reward_groups", "promotions", "rewards"}
    /\ up \in Upstreams
    /\ (reporter # "rewards" => up.total = "absent")
    /\ (reporter # "reward_groups" => ~up.fbOk)
    /\ rgf = RGInit
    /\ pf = PFInit
    /\ rwf = RWInit
    /\ MergeIdle
    /\ RunIdle
    /\ CacheIdle
    /\ ReportIdle
    /\ InterpIdle
    /\ ToolsIdle

FetchNext == RGFetchPage \/ PFFetchPage \/ RWFetchPage

FetchSpec == FetchInit /\ [][FetchNext]_vars

---------------------------------------------------------------------------
(* The merge specification: any listing record, any detail record, one merge *)

FieldValues == {Absent, Null} \cup ScalarValues

ListingStatMaps == [StatKeys -> {Absent, Null, "1"}]

DetailStatMaps == [StatKeys -> {Absent, Null, "2"}]

MergeInit ==
    /\ listing_data \in [Keys -> FieldValues \cup {ListingStats}]
    /\ detail_data \in [Keys -> FieldValues \cup {DetailStats}]
    /\ listing_data["statistics"] \notin ScalarValues
    /\ detail_data["statistics"] \notin ScalarValues
    /\ \A k \in Keys \ {"statistics"} : listing_data[k] \in FieldValues
    /\ \A k \in Keys \ {"statistics"} : detail_data[k] \in FieldValues
    /\ heap \in [Addresses -> ListingStatMaps \cup DetailStatMaps]
    /\ heap[ListingStats] \in ListingStatMaps
    /\ heap[DetailStats] \in DetailStatMaps
    /\ (~IsRef(listing_data["statistics"]) => heap[ListingStats] = EmptyStats)
    /\ (~IsRef(detail_data["statistics"]) => heap[DetailStats] = EmptyStats)
    /\ heap0 = heap
    /\ merged = NoRecord
    /\ mpc = "none"
    /\ reporter = "none"
    /\ FetchIdle
    /\ RunIdle
    /\ CacheIdle
    /\ ReportIdle
    /\ InterpIdle
    /\ ToolsIdle

MergeNext == MergeRewardGroup \/ MergePromotion

MergeSpec == MergeInit /\ [][MergeNext]_vars

---------------------------------------------------------------------------
(* The run specification: any listing the fetch may return (the fallback    *)
(* path returns duplicates as they come), any set of failing detail fetches *)

ListingsOfLen(n) ==
    { [k \in 1..n |-> Entity(seed[k].id, k, seed[k].type)] :
          seed \in [1..n -> [id : 0..MaxId, type : {Absent, "x"}]] }

Listings == UNION { ListingsOfLen(n) : n \in 0..MaxListing }

\* the listing of the promotions run: its records are of two promotion types
PromotionListingsOfLen(n) ==
    { [k \in 1..n |-> Entity(seed[k].id, k, seed[k].type)] :
          seed \in [1..n -> [id : 0..MaxId, type : {Absent, "x", "y"}]] }

PromotionListings == UNION { PromotionListingsOfLen(n) : n \in 0..MaxListing }

RunInit ==
    /\ reporter \in {"reward_groups", "promotions"}
    /\ listing_result \in IF reporter = "promotions" THEN PromotionListings ELSE Listings
    /\ details_fail \in SUBSET (1..MaxId)
    /\ run = RunLocals("fetched", listing_result)
    /\ FetchIdle
    /\ MergeIdle
    /\ CacheIdle
    /\ ReportIdle
    /\ InterpIdle
    /\ ToolsIdle

RunNext == RunStart \/ RGEnrichOne \/ PromoEnrichOne \/ PromoWriteReport

RunSpec == RunInit /\ [][RunNext]_vars

---------------------------------------------------------------------------
(* The detail-run specification: the runs of the tiers, rewards, audience-  *)
(* group, product-group and location-group reporters over any listing and   *)
(* any set of failing detail fetches. These loops read the id with          *)
(* record["id"] and request the detail whatever the id is.                  *)

DetailReporters ==
    {"tiers", "rewards", "audience_groups", "product_groups", "location_groups"}

\* the detail record of a product or location group: with or without a
\* statistics sub-mapping of its own
GroupDetails == {DetailFields, [DetailFields EXCEPT !["statistics"] = DetailStats]}

\* the statistics mappings of the listing records and of the detail records
GroupHeaps ==
    { [a \in Addresses |-> IF a = ListingStats THEN [k \in StatKeys |-> IF k = "a" THEN "x" ELSE Absent]
                           ELSE dstats] :
          dstats \in { [k \in StatKeys |-> IF k = "a" THEN "y" ELSE Absent],
                       [k \in StatKeys |-> "y"] } }

DetailListings ==
    UNION { { [k \in 1..n |-> [Entity(seed[k].id, k, "x")
                                  EXCEPT !.fields["statistics"] = seed[k].stats]] :
                  seed \in [1..n -> [id : 0..MaxId, stats : {Absent, ListingStats}]] } :
            n \in 0..MaxListing }

DetailRunInit ==
    /\ reporter \in DetailReporters
    /\ listing_result \in DetailListings
    /\ (reporter \notin {"product_groups", "location_groups"} =>
            \A k \in 1..Len(listing_result) : listing_result[k].fields["statistics"] = Absent)
    /\ details_fail \in SUBSET (0..MaxId)
    /\ run = RunLocals("fetched", listing_result)
    /\ FetchIdle
    /\ IF reporter \in {"product_groups", "location_groups"}
       THEN /\ listing_data = NoRecord
            /\ detail_data \in GroupDetails
            /\ heap \in GroupHeaps
            /\ heap0 = heap
            /\ merged = NoRecord
            /\ mpc = "idle"
       ELSE MergeIdle
    /\ CacheIdle
    /\ ReportIdle
    /\ InterpIdle
    /\ ToolsIdle

DetailRunNext ==
    \/ RunStart
    \/ TierEnrichOne
    \/ RewardEnrichOne
    \/ AudienceEnrichOne
    \/ ProductEnrichOne
    \/ LocationEnrichOne

DetailRunSpec == DetailRunInit /\ [][DetailRunNext]_vars

---------------------------------------------------------------------------
(* The report specification: one reward-groups run from the listing fetch   *)
(* to the written report, over any upstream listing and any set of failing  *)
(* detail fetches.                                                          *)

\* most pages the listing of a run of this specification has
MaxReportPages == 4

ReportInit ==
    /\ reporter = "reward_groups"
    /\ up \in Upstreams
    /\ up.n <= MaxReportPages
    /\ up.total = "absent"
    /\ rgf = RGInit
    /\ pf = PFInit
    /\ rwf = RWInit
    /\ details_fail \in SUBSET (1..MaxId)
    /\ listing_result = <<>>
    /\ run = RunLocals("idle", <<>>)
    /\ ref_up \in [Tables -> {"ok", "fail"}]
    /\ \A t \in Tables \ CachesOf(reporter) : ref_up[t] = "ok"
    /\ cache = [t \in Tables |-> None]
    /\ ref_requests = [t \in Tables |-> 0]
    /\ lookups = <<>>
    /\ report = NoReport
    /\ MergeIdle
    /\ InterpIdle
    /\ ToolsIdle

ReportNext ==
    \/ RGFetchPage
    \/ RGListingFetched
    \/ RunStart
    \/ RGEnrichOne
    \/ RGWriteReport

ReportSpec == ReportInit /\ [][ReportNext]_vars

---------------------------------------------------------------------------
(* The cache specification: one reporter instance, any behaviour of the     *)
(* reference endpoints, any sequence of fetch_* and get_*_by_id calls       *)

Reporters ==
    {"reward_groups", "tiers", "rewards", "promotions",
     "audience_groups", "product_groups", "location_groups"}

\* the ways a request of a reference endpoint ends
RequestOutcomes == {"ok", "fail", "timeout", "connection_error", "http_error"}

CacheInit ==
    /\ reporter \in Reporters
    /\ ref_up \in [Tables -> RequestOutcomes]
    /\ \A t \in Tables \ CachesOf(reporter) : ref_up[t] = "ok"
    /\ cache = [t \in Tables |-> None]
    /\ ref_requests = [t \in Tables |-> 0]
    /\ lookups = <<>>
    /\ FetchIdle
    /\ MergeIdle
    /\ RunIdle
    /\ ReportIdle
    /\ InterpIdle
    /\ ToolsIdle

CacheNext == FetchReference \/ LookupReference \/ RenderReference

CacheSpec == CacheInit /\ [][CacheNext]_vars

---------------------------------------------------------------------------
(* The interpretation specification: one of the four reporters that         *)
(* interpret rules, the rule definitions fetched or failing, and one call   *)
(* of interpret_operator, of interpret_rule or of the section generator     *)

RuleReporters == {"reward_groups", "audience_groups", "product_groups", "location_groups"}

InterpInit ==
    /\ reporter \in RuleReporters
    /\ ref_up \in [Tables -> {"ok", "fail"}]
    /\ \A t \in Tables \ CachesOf(reporter) : ref_up[t] = "ok"
    /\ cache = [t \in Tables |-> None]
    /\ ref_requests = [t \in Tables |-> 0]
    /\ lookups = <<>>
    /\ groups = <<>>
    /\ interp = NoInterp
    /\ FetchIdle
    /\ MergeIdle
    /\ RunIdle
    /\ ReportIdle
    /\ ToolsIdle

InterpNext ==
    \/ InterpretOperator
    \/ InterpretRule
    \/ UpstreamOutcomeChanges
    \/ InterpretRuleAgain
    \/ GenerateDetailedSections

InterpSpec == InterpInit /\ [][InterpNext]_vars

---------------------------------------------------------------------------
(* The tool specification: any sequence of invocations of the reward-groups  *)
(* tool and the tiers tool in one working directory                          *)

ToolInit ==
    /\ reporter = "none"
    /\ tools = NoTools
    /\ FetchIdle
    /\ MergeIdle
    /\ RunIdle
    /\ CacheIdle
    /\ ReportIdle
    /\ InterpIdle

ToolNext == tool_generate_reward_group_report \/ tool_generate_tier_report

ToolSpec == ToolInit /\ [][ToolNext]_vars

---------------------------------------------------------------------------
(* What the fetch claims speak about *)

\* no two records of seq carry the same id
NoDuplicateIds(seq) ==
    \A i \in 1..Len(seq) : \A j \in 1..Len(seq) : (i # j) => seq[i].id # seq[j].id

\* the records of seq whose id occurs at no earlier position, in the order of seq
FirstOccurrences(seq) ==
    LET Keep[k \in 0..Len(seq)] ==
            IF k = 0 THEN <<>>
            ELSE IF \E j \in 1..(k - 1) : seq[j].id = seq[k].id
                 THEN Keep[k - 1]
                 ELSE Append(Keep[k - 1], seq[k])
    IN  Keep[Len(seq)]

PagesUpTo(n) == [k \in 1..n |-> k]

\* the upstream of claim C1: pages 1..n-1 full, page n short, no failure
ShortPageUpstream == up.last = "data"

\* the first page request failed
FirstPageFails == up.n = 1 /\ up.last = "fail"

\* the fetcher record of the reporter chosen for this run
Fetcher == IF reporter = "reward_groups" THEN rgf
           ELSE IF reporter = "promotions" THEN pf ELSE rwf

\* C1: with pages 1..N-1 full and page N short, fetch_all_reward_groups and
\* fetch_all_promotions issue exactly the requests for pages 1..N, in order, and
\* return the records of pages 1..N in page order, deduplicated by id.
C1_ExactlyNRequestsDedupConcat ==
    (reporter \in {"reward_groups", "promotions"} /\ ShortPageUpstream
        /\ Fetcher.pc = "done") =>
        /\ Fetcher.requests = PagesUpTo(up.n)
        /\ Fetcher.result = FirstOccurrences(RecordsUpTo((up.n - 1) * PerPage + up.short))

\* C2: on every return path the sequence fetch_all_reward_groups returns holds no
\* two records of the same id, and it keeps the first record seen of each id in
\* the order the records arrived.
C2_ResultHasUniqueIds ==
    (reporter = "reward_groups" /\ rgf.pc = "done") =>
        /\ NoDuplicateIds(rgf.result)
        /\ rgf.result = FirstOccurrences(
               IF rgf.exit = "fallback" THEN make_api_call_unpaginated.data
               ELSE rgf.all_groups)

\* C3: fetch_all_reward_groups never issues more than max_pages paginated
\* requests; the warning is emitted exactly when all max_pages pages came back
\* full, and then the result is the deduplicated records of those pages.
C3_PageBudget ==
    reporter = "reward_groups" =>
        /\ Len(rgf.requests) <= max_pages
        /\ rgf.warned <=> (rgf.pc = "done" /\ up.n > max_pages)
        /\ (rgf.pc = "done" /\ up.n > max_pages) =>
              /\ rgf.requests = PagesUpTo(max_pages)
              /\ rgf.result = FirstOccurrences(RecordsUpTo(max_pages * PerPage))

C3_Witness ==
    /\ reporter = "reward_groups"
    /\ rgf.pc = "done"
    /\ rgf.warned
    /\ Len(rgf.requests) = max_pages
    /\ Len(rgf.result) > 1

\* C4: fetch_all_promotions and fetch_all_rewards stop within a page budget for
\* every upstream, also one whose every page is full: by the time PageCap page
\* requests were issued (PageCap exceeds the reward-groups fetcher's max_pages)
\* the fetch has returned.
C4_FetchStopsWithinBudget ==
    (reporter \in {"promotions", "rewards"} /\ Len(Fetcher.requests) >= PageCap)
        => Fetcher.pc = "done"

\* C5: in fetch_all_reward_groups a failed page 1 triggers exactly one
\* unpaginated request, whose data is returned if it succeeds and the empty list
\* if it fails; a failed page k > 1 triggers no fallback and the result is the
\* deduplicated records of pages 1..k-1; there is never more than one fallback.
C5_FallbackOnlyOnFirstPage ==
    reporter = "reward_groups" =>
        /\ rgf.fallbacks <= 1
        /\ rgf.pc = "done" =>
              /\ rgf.fallbacks = (IF FirstPageFails THEN 1 ELSE 0)
              /\ FirstPageFails =>
                    /\ rgf.requests = <<1>>
                    /\ rgf.result = (IF up.fbOk THEN RecordsUpTo(up.fbLen) ELSE <<>>)
              /\ (up.last = "fail" /\ up.n > 1 /\ up.n <= max_pages) =>
                    /\ rgf.requests = PagesUpTo(up.n)
                    /\ rgf.result = FirstOccurrences(RecordsUpTo((up.n - 1) * PerPage))

C5_Witness ==
    /\ reporter = "reward_groups"
    /\ rgf.pc = "done"
    /\ FirstPageFails
    /\ rgf.fallbacks = 1
    /\ Len(rgf.result) = MaxFb

---------------------------------------------------------------------------
(* What the merge claims speak about *)

Merged == mpc \in {"reward_groups", "promotions"}

\* the statistics mappings of the two inputs as they were passed in
ListingStatsBefore == Deref(listing_data["statistics"], heap0)

DetailStatsBefore == Deref(detail_data["statistics"], heap0)

\* C6: the merged record has a non-null value for every top-level field for
\* which the listing record or the detail record supplied a non-null value.
C6_NoPopulatedFieldLost ==
    Merged =>
        \A k \in Keys :
            (NonNull(listing_data[k]) \/ NonNull(detail_data[k])) => NonNull(merged[k])

\* C7: when listing and detail both hold a statistics sub-mapping, the merged
\* statistics holds for every key detail's value if that is non-null, otherwise
\* listing's value (detail's, when listing has no such key).
C7_StatisticsMergedPerKey ==
    (Merged /\ IsRef(listing_data["statistics"]) /\ IsRef(detail_data["statistics"])) =>
        \A k \in StatKeys :
            Deref(merged["statistics"], heap)[k] =
                IF NonNull(DetailStatsBefore[k]) THEN DetailStatsBefore[k]
                ELSE IF ListingStatsBefore[k] = Absent THEN DetailStatsBefore[k]
                ELSE ListingStatsBefore[k]

\* the value the field-by-field policy gives a field other than statistics
ListingFirst(k) ==
    IF NonNull(listing_data[k]) THEN listing_data[k]
    ELSE IF detail_data[k] # Absent THEN detail_data[k]
    ELSE listing_data[k]

\* C8 as claimed: every top-level field other than statistics whose listing
\* value is non-null keeps it, detail's value is adopted only for a field absent
\* or null in listing, a field only listing has is unchanged, and for promotions
\* the merged promotionType always equals the listing record's type.
C8_ListingWinsTypeAlwaysCopied ==
    Merged =>
        /\ \A k \in Keys \ {"statistics"} :
              /\ NonNull(listing_data[k]) => merged[k] = listing_data[k]
              /\ (merged[k] # listing_data[k] /\ merged[k] = detail_data[k])
                    => ~NonNull(listing_data[k])
              /\ (listing_data[k] # Absent /\ detail_data[k] = Absent)
                    => merged[k] = listing_data[k]
        /\ mpc = "promotions" => merged["promotionType"] = listing_data["type"]

\* promotionType of a promotion whose listing record has a type field
TypeCopied(k) ==
    mpc = "promotions" /\ k = "promotionType" /\ listing_data["type"] # Absent

\* C8 as amended: every top-level field other than statistics, and other than the
\* promotionType of a promotion whose listing record has a type field, keeps
\* listing's non-null value, takes detail's value only when listing's is absent or
\* null, and is unchanged when only listing has it; for promotions whose listing
\* record has a type field the merged promotionType equals that type.
C8_ListingWinsTypeCopiedWhenPresent ==
    Merged =>
        \A k \in Keys \ {"statistics"} :
            merged[k] = IF TypeCopied(k) THEN listing_data["type"] ELSE ListingFirst(k)

C8_Witness ==
    /\ mpc = "promotions"
    /\ listing_data["type"] = "x"
    /\ listing_data["promotionType"] = "y"
    /\ detail_data["type"] = "y"
    /\ detail_data["promotionType"] = "y"
    /\ merged["type"] = "x"
    /\ merged["promotionType"] = "x"

\* C9: merge leaves its inputs as they were: the statistics mappings the listing
\* record and the detail record refer to hold after the call what they held
\* before it.
C9_MergeLeavesInputsUnchanged ==
    Merged => heap = heap0

---------------------------------------------------------------------------
(* What the run claims speak about *)

HasKey(e) == IF reporter = "reward_groups" THEN RGHasKey(e) ELSE PromoHasKey(e)

\* the listing positions the loop has been through
Processed == IF run.pc \in {"loop", "enriched"} THEN 1..(run.i - 1) ELSE {}

\* the positions whose detail fetch was made and returned nothing
DetailFailedAt(k) == HasKey(listing_result[k]) /\ listing_result[k].id \in details_fail

\* the record at position j of the enriched collection is the listing record of
\* position k with the values the listing fetch returned
EmitsListingData(j, k) ==
    /\ run.with_details[j].pos = k
    /\ run.with_details[j].id = listing_result[k].id
    /\ \A f \in Keys \ {"promotionType"} :
           run.with_details[j].fields[f] = listing_result[k].fields[f]

PositionsEmitted == [j \in 1..Len(run.with_details) |-> run.with_details[j].pos]

PositionsWithKey ==
    SelectSeq([k \in 1..Len(listing_result) |-> k], LAMBDA k : HasKey(listing_result[k]))

\* C10: in the reward-groups and promotions runs an entity whose detail fetch
\* returns nothing is emitted with its listing data and counted as listing-only,
\* and the loop goes on: when it ends, every entity with a key was fetched and
\* emitted, in listing order.
C10_DetailFailureKeepsEntity ==
    /\ run.failed_fetches = Cardinality({k \in Processed : DetailFailedAt(k)})
    /\ \A k \in Processed :
           DetailFailedAt(k) => \E j \in 1..Len(run.with_details) : EmitsListingData(j, k)
    /\ run.pc = "enriched" =>
           /\ Processed = 1..Len(listing_result)
           /\ PositionsEmitted = PositionsWithKey
           /\ Len(run.detail_requests) = Len(PositionsWithKey)

C10_Witness ==
    /\ run.pc = "enriched"
    /\ Len(listing_result) = MaxListing
    /\ DetailFailedAt(1)
    /\ run.failed_fetches = 1
    /\ run.successful_fetches = MaxListing - 1
    /\ Len(run.with_details) = MaxListing
    /\ EmitsListingData(1, 1)

\* the listing positions whose detail request returned nothing
DetailEmptyAt(k) == listing_result[k].id \in details_fail

\* C11: in the tiers, rewards, audience-group, product-group and location-group
\* runs an entity of the listing whose detail fetch returns nothing is still
\* emitted with its listing data, so that when the loop ends the enriched
\* collection has as many entities as the listing.
C11_DetailFailureStillEmitted ==
    (reporter \in DetailReporters /\ run.pc = "enriched") =>
        /\ Len(run.with_details) = Len(listing_result)
        /\ \A k \in 1..Len(listing_result) :
               DetailEmptyAt(k) => \E j \in 1..Len(run.with_details) : EmitsListingData(j, k)

---------------------------------------------------------------------------
(* What the report claims speak about *)

\* the distinct ids of the listing the run was given
ListingIds == { listing_result[k].id : k \in 1..Len(listing_result) }

RecordsOfId(id) == { j \in 1..Len(run.with_details) : run.with_details[j].id = id }

\* the record is the listing record as it was, with nothing of a detail in it
IsListingOnly(r) == r.fields = Entity(r.id, r.pos, "x").fields

OneRecordPerDistinctId ==
    /\ Len(run.with_details) = Cardinality(ListingIds)
    /\ \A id \in ListingIds : Cardinality(RecordsOfId(id)) = 1

FailedAreListingOnly ==
    /\ run.failed_fetches = Cardinality(ListingIds \cap details_fail)
    /\ \A j \in 1..Len(run.with_details) :
           IsListingOnly(run.with_details[j]) <=> run.with_details[j].id \in details_fail

OneRowPerIdAscending ==
    /\ Len(report.summary) = Cardinality(ListingIds)
    /\ { report.summary[j].id : j \in 1..Len(report.summary) } = ListingIds
    /\ \A j \in 1..(Len(report.summary) - 1) : report.summary[j].id < report.summary[j + 1].id

\* C12: when a reward-groups run over a listing fetched page by page has written
\* its report (the pages may repeat ids, any detail fetches may fail), the enriched
\* collection holds exactly one record per distinct id of the listing, the
\* records whose detail fetch failed are exactly the listing-only ones and are
\* counted as such, and the summary has exactly one row per distinct id, in
\* ascending order of id.
C12_OneRecordAndRowPerDistinctId ==
    (report.pc = "written" /\ rgf.exit # "fallback") =>
        /\ OneRecordPerDistinctId
        /\ FailedAreListingOnly
        /\ OneRowPerIdAscending

\* a listing with an id on two pages and out of ascending order, one detail
\* fetch failed and one succeeded, the report written
C12_Witness ==
    /\ report.pc = "written"
    /\ rgf.exit = "short"
    /\ Len(rgf.all_groups) > Len(rgf.result)
    /\ Len(rgf.requests) >= 2
    /\ Len(listing_result) >= 2
    /\ listing_result[1].id > listing_result[2].id
    /\ run.failed_fetches = 1
    /\ run.successful_fetches >= 1
    /\ Len(report.summary) = Len(listing_result)
    /\ report.summary[1].id < report.summary[2].id

---------------------------------------------------------------------------
(* What the cache claims speak about *)

\* C13: within one reporter instance every reference table is requested from
\* the upstream at most once, however many fetches and lookups are made and
\* also when the request failed and the cache holds the empty response; a
\* cache field that has been set is never assigned again.
C13_ReferenceRequestedAtMostOnce ==
    [][\A t \in Tables :
           /\ ref_requests'[t] <= 1
           /\ (cache[t].set => cache'[t] = cache[t])]_vars

\* the request of a table failed, and every later call was answered from the
\* cache field holding the empty response
C13_Witness ==
    \E t \in Tables :
        /\ ref_up[t] = "fail"
        /\ Len(lookups) = MaxLookups
        /\ \A k \in 1..Len(lookups) : lookups[k].table = t
        /\ \E k \in 1..Len(lookups) : lookups[k].id # 0
        /\ ref_requests[t] = 1
        /\ cache[t].set
        /\ ~cache[t].value.ok

---------------------------------------------------------------------------
(* What the interpretation claims speak about *)

\* the rule definitions the reporter holds after the call
FetchedDefinitions == cache["rule_definitions"].value.data

\* the rule names a definition that was fetched
Resolved(rule) == rule.rd = "id" /\ GetById(FetchedDefinitions, rule.rd_id).found

ResolvedDefinition(rule) == GetById(FetchedDefinitions, rule.rd_id).def

RuleInterpreted == interp.pc = "rule"

\* the texts that say that a rule's definition was not found
NotFoundTexts(rule) ==
    { <<"Rule definition not found">>,
      <<"Rule definition ID not found">>,
      <<"Rule definition ", ToString(rule.rd_id), " not found">>,
      <<"Unknown rule type (ID: ", ToString(rule.rd_id), ")">> }

\* every group of the collection has its section, in the order of the ids
EveryGroupHasItsSection ==
    /\ ~interp.sections.raised
    /\ Len(interp.sections.sections) = Len(groups)
    /\ \A k \in 1..Len(groups) : interp.sections.sections[k].id = groups[k].id

\* C14: interpret_rule renders a rule whose ruleDefinition id is missing or
\* names no fetched definition (also when the fetch failed and the table is
\* empty) as an explicit not-found text; it raises for no rule in no reporter,
\* and the report has the section of every entity whatever its rules are.
C14_MissingDefinitionIsNotFoundText ==
    /\ RuleInterpreted =>
           /\ ~interp.result.raised
           /\ ~Resolved(interp.rule) => interp.result.text \in NotFoundTexts(interp.rule)
    /\ (interp.pc = "sections" /\ \A k \in 1..Len(groups) : groups[k].flag # Absent) =>
           EveryGroupHasItsSection

\* the single value of a rule of one value, when the rule is resolved and the
\* value was rendered
OneValueRendered ==
    /\ RuleInterpreted
    /\ ~interp.result.raised
    /\ Resolved(interp.rule)
    /\ Len(interp.rule.values) = 1
    /\ Len(ValueTexts(reporter, ResolvedDefinition(interp.rule), interp.rule.values)) = 1

LastPiece(text) == text[Len(text)]

\* C15: the value of a condition is rendered as selectedText when that is
\* present, for every component type, dateRange included; else as the range of
\* value1 and value2; else as value1; else as "(no value specified)".
C15_SelectedTextFirst ==
    OneValueRendered =>
        LET value == interp.rule.values[1]
            text == interp.result.text
        IN  /\ value.selectedText # Absent => LastPiece(text) = value.selectedText
            /\ (value.selectedText = Absent /\ value.value1 # Absent /\ value.value2 # Absent) =>
                   /\ LastPiece(text) \in {value.value2, format_date(value.value2)}
                   /\ \E k \in 1..Len(text) : text[k] \in {value.value1, format_date(value.value1)}
            /\ (value.selectedText = Absent /\ value.value1 # Absent /\ value.value2 = Absent) =>
                   LastPiece(text) = value.value1
            /\ (value.selectedText = Absent /\ value.value1 = Absent) =>
                   LastPiece(text) = "(no value specified)"

RECURSIVE ConcatAll(_)
ConcatAll(texts) == IF texts = <<>> THEN <<>> ELSE Head(texts) \o ConcatAll(Tail(texts))

\* the texts one after the other with " AND " between two of them
InOrderWithAnd(texts) ==
    ConcatAll([i \in 1..(2 * Len(texts) - 1) |->
                  IF i % 2 = 1 THEN texts[(i + 1) \div 2] ELSE <<" AND ">>])

\* the values of the rule whose component the resolved definition holds
ValuesWithComponent(rule) ==
    SelectSeq(rule.values, LAMBDA v : HasComponent(ResolvedDefinition(rule), v.component_id))

\* C16: a value whose component id matches no component of the resolved
\* definition contributes nothing to the text, and the other values of the
\* rule are rendered: the text holds the values with a matching component and
\* no other.
C16_UnmatchedComponentSkipped ==
    (/\ RuleInterpreted
     /\ ~interp.result.raised
     /\ Resolved(interp.rule)
     /\ Len(ValuesWithComponent(interp.rule)) >= 1) =>
        LET rule_def == ResolvedDefinition(interp.rule)
            kept == ValuesWithComponent(interp.rule)
        IN  interp.result.text =
                <<rule_def.name, ": ">> \o
                InOrderWithAnd([k \in 1..Len(kept) |-> ValueText(reporter, rule_def, kept[k])])

\* the values of the rule the reporter renders, in the order of rule.values
RenderedValues(rule) ==
    SelectSeq(rule.values, LAMBDA v : RendersValue(reporter, ResolvedDefinition(rule), v))

\* C17: for a rule with a resolved definition and k >= 1 rendered values the
\* text is the definition's name, then ": ", then the k value texts in the
\* order of rule.values with " AND " between them, each once.
C17_NameThenValuesJoinedInOrder ==
    (/\ RuleInterpreted
     /\ ~interp.result.raised
     /\ Resolved(interp.rule)
     /\ Len(RenderedValues(interp.rule)) >= 1) =>
        LET rule_def == ResolvedDefinition(interp.rule)
            rendered == RenderedValues(interp.rule)
        IN  interp.result.text =
                <<rule_def.name>> \o <<": ">> \o
                InOrderWithAnd([k \in 1..Len(rendered) |-> ValueText(reporter, rule_def, rendered[k])])

\* a rule of two different values, both rendered
C17_Witness ==
    /\ RuleInterpreted
    /\ ~interp.result.raised
    /\ Resolved(interp.rule)
    /\ Len(interp.rule.values) = 2
    /\ Len(RenderedValues(interp.rule)) = 2
    /\ interp.rule.values[1] # interp.rule.values[2]
    /\ ValueText(reporter, ResolvedDefinition(interp.rule), interp.rule.values[1])
         # ValueText(reporter, ResolvedDefinition(interp.rule), interp.rule.values[2])

\* C18: a rule with a resolved definition and no rendered value (its values
\* are empty or absent) is rendered as the definition's name followed by the
\* "(no interpretable values)" suffix.
C18_NoValuesGetsSuffix ==
    (/\ RuleInterpreted
     /\ ~interp.result.raised
     /\ Resolved(interp.rule)
     /\ Len(RenderedValues(interp.rule)) = 0) =>
        /\ interp.result.text[1] = ResolvedDefinition(interp.rule).name
        /\ LastPiece(interp.result.text) = "(no interpretable values)"

\* C19: interpret_operator returns the phrase of its table for every code the
\* table holds and the code itself for every other code, and does not raise.
C19_OperatorMappedOrVerbatim ==
    interp.pc = "operator" =>
        /\ ~interp.result.raised
        /\ interp.operator \in DOMAIN operator_map(reporter) =>
               interp.result.text = <<operator_map(reporter)[interp.operator]>>
        /\ interp.operator \notin DOMAIN operator_map(reporter) =>
               interp.result.text = <<interp.operator>>

\* a code that one reporter's table holds and this reporter's does not
C19_Witness ==
    /\ interp.pc = "operator"
    /\ interp.operator \notin DOMAIN operator_map(reporter)
    /\ interp.operator \in DOMAIN RGOperatorMap \cup DOMAIN GroupOperatorMap
    /\ interp.result = Returns(<<interp.operator>>)

\* C20: the section of an entity with several rules says ANY when the
\* ruleMatch / logic flag is "any", and ALL when the flag is "all" or absent.
C20_AbsentFlagMeansAll ==
    (/\ interp.pc = "sections"
     /\ \A k \in 1..Len(groups) : \A j \in 1..Len(groups[k].rules) : groups[k].rules[j].rd = "id") =>
        /\ EveryGroupHasItsSection
        /\ \A k \in 1..Len(groups) :
               Len(groups[k].rules) >= 2 =>
                   interp.sections.sections[k].logic =
                       IF groups[k].flag = "any" THEN <<"ANY">> ELSE <<"ALL">>

---------------------------------------------------------------------------
(* What the later fetch, run and report claims speak about *)

\* C23: fetch_all_rewards stops only on a page that holds fewer than per_page
\* records or none: the last page it requested is such a page, so a full
\* page 1 without meta.pagination.totalPages is followed by a request of page 2.
C23_RewardsStopOnlyOnShortOrEmptyPage ==
    (reporter = "rewards" /\ rwf.pc = "done") =>
        LET last == rwf.requests[Len(rwf.requests)]
        IN  Len(make_api_call_page(last).data) < PerPage

\* generate_reward_group_report has returned
RunReturned == run.pc = "returned_empty" \/ report.pc = "written"

\* C24: whatever the upstream answered, a failed or empty listing fetch
\* included, generate_reward_group_report has written a report document when
\* it returns.
C24_ReturnedRunHasWrittenReport == RunReturned => report.pc = "written"

\* C28: at the end of the enrichment loop of generate_reward_group_report the
\* three counters add up to the number of listing records, the enriched
\* collection has successful_fetches + failed_fetches records, and a listing
\* record is missing from it exactly when its id is missing, null or 0.
C28_CountersAccountForEveryRecord ==
    (reporter = "reward_groups" /\ run.pc = "enriched") =>
        /\ run.successful_fetches + run.failed_fetches + run.skipped_groups
               = Len(listing_result)
        /\ Len(run.with_details) = run.successful_fetches + run.failed_fetches
        /\ \A k \in 1..Len(listing_result) :
               (listing_result[k].id = 0) <=>
                   ~\E j \in 1..Len(run.with_details) : run.with_details[j].pos = k

\* a listing of which one record was skipped, one enriched and one kept as
\* the listing had it
C28_Witness ==
    /\ reporter = "reward_groups"
    /\ run.pc = "enriched"
    /\ run.skipped_groups = 1
    /\ run.successful_fetches = 1
    /\ run.failed_fetches = 1
    /\ Len(run.with_details) = 2

\* C21: the summary of a written report has one row per entity of the
\* report, the rows are in ascending order of id (entities of equal id in the
\* order of their promotion type), and the detailed sections list the same
\* entities in the same order as the rows.
C21_RowsAscendingByIdSectionsAlike ==
    report.pc = "written" =>
        /\ Len(report.summary) = Len(run.with_details)
        /\ \A j \in 1..Len(report.summary) :
               \E k \in 1..Len(run.with_details) :
                   run.with_details[k].pos = report.summary[j].pos
        /\ \A j, k \in 1..Len(report.summary) :
               j < k => report.summary[j].id <= report.summary[k].id
        /\ report.sections = report.summary

\* the entity at place j of the enriched collection was made from a listing
\* record and a detail record that both carry a statistics sub-mapping
BothCarryStatistics(j) ==
    /\ IsRef(listing_result[run.with_details[j].pos].fields["statistics"])
    /\ IsRef(detail_data["statistics"])

\* the statistics mapping of the entity at place j of the enriched collection
EmittedStatistics(j) == Deref(run.with_details[j].fields["statistics"], heap)

\* C22: in the product-group and location-group runs, an emitted entity whose
\* listing record and detail record both carry a statistics sub-mapping has
\* the key-by-key merge of the two as its statistics: every key holds the
\* value one of the two supplied, and no key for which the detail record
\* supplied a non-null value is missing.
C22_StatisticsMergedKeyByKey ==
    (reporter \in {"product_groups", "location_groups"} /\ run.pc = "enriched") =>
        \A j \in 1..Len(run.with_details) :
            BothCarryStatistics(j) =>
                \A key \in StatKeys :
                    LET lv == Deref(ListingStats, heap0)[key]
                        dv == Deref(DetailStats, heap0)[key]
                    IN  /\ EmittedStatistics(j)[key] \in {lv, dv}
                        /\ NonNull(dv) => NonNull(EmittedStatistics(j)[key])

\* C25: whichever way a request fails (timeout, connection error, non-2xx
\* status), make_api_call returns the empty mapping and no exception reaches
\* its caller, and the caller that reads "data" from the result gets an empty
\* collection, in which no id is found.
C25_TransportFailureIsEmptyMapping ==
    /\ \A k \in 1..Len(lookups) : ~lookups[k].raised
    /\ \A t \in Tables :
           (cache[t].set /\ ref_up[t] # "ok") =>
               cache[t].value = EmptyResponse /\ cache[t].value.data = <<>>
    /\ \A k \in 1..Len(lookups) :
           ref_up[lookups[k].table] # "ok" =>
               cache[lookups[k].table].set /\ ~lookups[k].found

C25_Witness ==
    /\ \E t \in Tables : ref_up[t] = "http_error" /\ cache[t].set
    /\ \E t \in Tables : ref_up[t] = "timeout" /\ cache[t].set
    /\ \E k \in 1..Len(lookups) :
           ref_up[lookups[k].table] = "http_error" /\ lookups[k].id # 0

\* the id is not in the table the reporter has cached
NotInCachedTable(t, id) == ~GetById(cache[t].value.data, id).found

InterpretRuleCalled == interp'.pc \in {"rule", "rule_again"} /\ interp'.pc # interp.pc

\* C27: with the rule-definition table and the rule fixed, a later call of
\* interpret_rule in the same run gives what the first call gave (the same
\* string, or the same exception), whether the rule-definition cache was
\* empty or populated when the call was made, and a call changes nothing of
\* the reporter but the rule-definition cache, which it only populates when
\* the cache is still None.
C27_InterpretRuleRepeatable ==
    [][InterpretRuleCalled =>
           /\ interp'.pc = "rule_again" => interp'.again = interp'.result
           /\ \A t \in Tables :
                  \/ cache'[t] = cache[t]
                  \/ t = "rule_definitions" /\ ~cache[t].set /\ cache'[t].set]_vars

\* the first call found the definition in the table it fetched, the upstream
\* then stopped answering, and the second call was answered from the cache
C27_Witness ==
    /\ interp.pc = "rule_again"
    /\ Resolved(interp.rule)
    /\ ref_up["rule_definitions"] = "fail"
    /\ ref_requests["rule_definitions"] = 1
    /\ ~interp.again.raised
    /\ Len(interp.again.text) > 0

\* the ids of the listing records that have one, in listing order
IdsWithDetailRequest ==
    LET withId == SelectSeq(listing_result, LAMBDA e : e.id # 0)
    IN  [k \in 1..Len(withId) |-> withId[k].id]

RuleDefinitionsRequests == ref_requests["rule_definitions"]

\* C29: in one reward-groups run every listing request is made before any
\* detail request, the detail requests are one per listing record that has an
\* id, in listing order, and all made before the rule-definitions request, of
\* which there is at most one and which is made before the sections (and their
\* rule interpretations) are generated; a run whose listing fetch yields no
\* record makes no detail request and no rule-definitions request and writes
\* no report.
C29_RequestsInOrder ==
    [][/\ (rgf'.requests # rgf.requests \/ rgf'.fallbacks # rgf.fallbacks) =>
              /\ run.pc = "idle"
              /\ run.detail_requests = <<>>
              /\ RuleDefinitionsRequests = 0
       /\ run'.detail_requests # run.detail_requests =>
              /\ rgf.pc = "done"
              /\ RuleDefinitionsRequests' = 0
              /\ report.pc = "none"
       /\ RuleDefinitionsRequests' # RuleDefinitionsRequests =>
              /\ RuleDefinitionsRequests' = 1
              /\ run.pc = "enriched"
              /\ Len(listing_result) > 0
              /\ report.pc = "none"
       /\ run'.pc = "enriched" => run'.detail_requests = IdsWithDetailRequest'
       /\ report'.pc = "written" =>
              /\ cache'["rule_definitions"].set
              /\ RuleDefinitionsRequests' = 1
              /\ Len(listing_result') > 0
       /\ (run'.pc \notin {"idle", "fetched"} /\ Len(listing_result') = 0) =>
              /\ run'.detail_requests = <<>>
              /\ RuleDefinitionsRequests' = 0
              /\ report'.pc = "none"]_vars

\* a run with two listing pages, two detail requests and the one
\* rule-definitions request, up to the written report
C29_Witness ==
    /\ report.pc = "written"
    /\ Len(rgf.requests) >= 2
    /\ Len(run.detail_requests) >= 2
    /\ RuleDefinitionsRequests = 1

\* the object the bucket holds under the reward_groups key
UploadedRewardGroupsReport == tools.s3["reward_groups"]

\* C30: whatever tools were invoked before, the object uploaded under the
\* reward_groups key is a report the reward-groups reporter wrote in the
\* invocation that uploaded it, and an invocation of the reward-groups tool
\* whose reporter produced no report does not answer "Report generated ...".
C30_UploadIsThisInvocationsReport ==
    /\ UploadedRewardGroupsReport # NoObject =>
           /\ UploadedRewardGroupsReport.writer = "reward_groups"
           /\ UploadedRewardGroupsReport.written_in = UploadedRewardGroupsReport.uploaded_in
    /\ (tools.tool = "reward_groups" /\ ~tools.produced) =>
           tools.answer \notin {"Report generated and uploaded to S3",
                                "Report generated locally"}

=============================================================================
